---- MODULE Spec2Model ----
(***************************************************************************)
(* The message-stream command dispatcher of the key-check bot              *)
(* (src/index.ts, main): the for-await loop over streamAllMessages(), the  *)
(* inline command parser, the five handlers and the report formatter.      *)
(*                                                                         *)
(* Strings are sequences of one-character strings, so that trim, split,    *)
(* startsWith, toLowerCase, substring and length are computed as           *)
(* JavaScript computes them.  A text that is sent is a sequence of pieces: *)
(* the literal parts of a template are single pieces, an interpolated      *)
(* value contributes its characters.                                       *)
(***************************************************************************)
EXTENDS Integers, Sequences, FiniteSets, TLC

VARIABLES
    pc,             \* position of main() in the loop body
    n,              \* number of messages the stream has delivered so far
    message,        \* the loop variable `message`
    conversation,   \* const conversation (Null when not obtained)
    parts,          \* const parts
    command,        \* const command
    targetInboxId,  \* let targetInboxId
    targetAddress,  \* let targetAddress
    installationIds,\* const installationIds
    addressFromInboxId, \* const addressFromInboxId
    text,           \* the text the next conversation.send is called with
    error,          \* the error bound by the catch clause being executed
    calls,          \* collaborator calls made for the current message, in order
    active,         \* sequence numbers of the messages whose loop body is running
    sameWorld,      \* history: the collaborator state is that of the previous message
    prevCalls       \* history: the calls of the previous message (when sameWorld)

vars == <<pc, n, message, conversation, parts, command, targetInboxId,
          targetAddress, installationIds, addressFromInboxId, text, error,
          calls, active, sameWorld, prevCalls>>

----------------------------------------------------------------------------
(* Bounds of the model *)

MaxMsgs == 2
MaxMembers == 3
MaxInstallations == 2

----------------------------------------------------------------------------
(* JavaScript string primitives *)

Null == <<>>

IsSpace(c) == c \in {" ", "\t", "\n"}

\* String.prototype.toLowerCase, on the letters the model uses
LowerChar(c) ==
    CASE c = "A" -> "a" [] c = "B" -> "b" [] c = "C" -> "c" [] c = "D" -> "d"
      [] c = "E" -> "e" [] c = "H" -> "h" [] c = "K" -> "k" [] c = "L" -> "l"
      [] c = "P" -> "p" [] OTHER -> c

toLowerCase(s) == [i \in 1..Len(s) |-> LowerChar(s[i])]

RECURSIVE TrimStart(_)
TrimStart(s) ==
    IF s # <<>> /\ IsSpace(Head(s)) THEN TrimStart(Tail(s)) ELSE s

RECURSIVE TrimEnd(_)
TrimEnd(s) ==
    IF s # <<>> /\ IsSpace(s[Len(s)]) THEN TrimEnd(SubSeq(s, 1, Len(s) - 1)) ELSE s

\* String.prototype.trim
trim(s) == TrimEnd(TrimStart(s))

\* String.prototype.startsWith
startsWith(s, p) == Len(s) >= Len(p) /\ SubSeq(s, 1, Len(p)) = p

\* String.prototype.split(/\s+/): every maximal run of whitespace separates
\* two tokens; a leading or trailing run leaves an empty token.
RECURSIVE SplitAcc(_, _, _, _)
SplitAcc(s, i, acc, cur) ==
    IF i > Len(s) THEN Append(acc, cur)
    ELSE IF IsSpace(s[i])
         THEN IF i > 1 /\ IsSpace(s[i - 1])
              THEN SplitAcc(s, i + 1, acc, cur)
              ELSE SplitAcc(s, i + 1, Append(acc, cur), <<>>)
         ELSE SplitAcc(s, i + 1, acc, Append(cur, s[i]))

split(s) == SplitAcc(s, 1, <<>>, <<>>)

\* String.prototype.substring(from, to), zero-based, `to` exclusive
substring(s, from, to) == SubSeq(s, from + 1, to)

----------------------------------------------------------------------------
(* Literals of the source *)

KEYCHECK == <<"/", "k", "e", "y", "-", "c", "h", "e", "c", "k">>
KC == <<"/", "k", "c">>
HELP == <<"h", "e", "l", "p">>
GROUPID == <<"g", "r", "o", "u", "p", "i", "d">>
VERSION == <<"v", "e", "r", "s", "i", "o", "n">>
MEMBERS == <<"m", "e", "m", "b", "e", "r", "s">>
INBOXID == <<"i", "n", "b", "o", "x", "i", "d">>
ADDRESS == <<"a", "d", "d", "r", "e", "s", "s">>
TEXT == "text"

helpText ==
    << "Available commands:\n",
       "/key-check - Check key package status for the sender\n",
       "/key-check inboxid <INBOX_ID> - Check key package status for a specific inbox ID\n",
       "/key-check address <ADDRESS> - Check key package status for a specific address\n",
       "/key-check groupid - Show the current conversation ID\n",
       "/key-check members - List all members' inbox IDs in the current conversation\n",
       "/key-check version - Show XMTP SDK version information\n",
       "/key-check help - Show this help message\n",
       "Note: You can use /kc as a shorthand for all commands (e.g., /kc help)" >>

\* the version read from the SDK's package.json at start-up
xmtpSdkVersion == <<"3", ".", "0">>

----------------------------------------------------------------------------
(* Inputs: what the stream delivers and what the collaborator answers *)

SP == <<" ">>

\* client.inboxId
AgentInboxId == <<"A", "b">>

\* the agent itself, the agent in another letter case, another user
Senders == { <<"A", "b">>, <<"a", "B">>, <<"C", "d">> }

ConvIds == { <<"g", "1">>, <<"g", "2">> }

TypeIds == { TEXT, "reaction" }

ArgInboxId == <<"E", "f">>
ArgAddress == <<"0", "x", "A">>

PrefixedContents(P) ==
    { P,
      P \o SP \o HELP,
      P \o SP \o GROUPID,
      P \o SP \o VERSION,
      P \o SP \o MEMBERS,
      P \o SP \o INBOXID,
      P \o SP \o INBOXID \o SP \o ArgInboxId,
      P \o SP \o ADDRESS,
      P \o SP \o ADDRESS \o <<"\t", " ">> \o ArgAddress,
      P \o SP \o <<"H", "e", "l", "p">>,
      P \o SP \o <<"f", "o", "o">>,
      <<" ", "\n">> \o P \o <<" ", "\t">> \o HELP \o SP }

Contents ==
    PrefixedContents(KEYCHECK) \cup PrefixedContents(KC) \cup
    { KC \o <<"x">> \o SP \o HELP,
      <<"/", "K", "C">> \o SP \o HELP,
      <<"x">> \o SP \o KC \o SP \o HELP,
      HELP,
      <<"h", "i">>,
      <<>> }

Messages ==
    [senderInboxId : Senders, conversationId : ConvIds,
     typeId : TypeIds, content : Contents]

NoMessage ==
    [senderInboxId |-> <<>>, conversationId |-> <<>>, typeId |-> "", content |-> <<>>]

\* error.message of what a collaborator call throws
ErrMsgs == { <<"timeout">>, <<"rate limited">> }

\* error.message of the TypeError of reading a property of undefined
TypeErrorMsg == <<"Cannot read properties of undefined">>

Ok(v) == [kind |-> "ok", val |-> v]
Throws(e) == [kind |-> "throws", val |-> e]
Failures == { Throws(e) : e \in ErrMsgs }

\* one collaborator call: the operation, the conversation handle it is made on
\* (Null for a call on the client), its argument and how it completed
Call(op, on, arg, res) == [op |-> op, on |-> on, arg |-> arg, res |-> res]

SameRequest(a, op, on, arg) == a.op = op /\ a.on = on /\ a.arg = arg

\* What the collaborator may answer to the next call.  Against the collaborator
\* state of the previous message (sameWorld) the same request, made at the same
\* point, gets the same answer; otherwise any answer of `all`.
Answers(op, on, arg, all) ==
    LET k == Len(calls) + 1 IN
    IF sameWorld /\ k <= Len(prevCalls) /\ SameRequest(prevCalls[k], op, on, arg)
    THEN { prevCalls[k].res }
    ELSE all

\* the message with the command prefix replaced by its alias
Alias(m) ==
    LET t == split(trim(m.content)) IN
    IF t[1] = KC THEN [m EXCEPT !.content = KEYCHECK \o SubSeq(trim(m.content), Len(KC) + 1, Len(trim(m.content)))]
    ELSE IF t[1] = KEYCHECK THEN [m EXCEPT !.content = KC \o SubSeq(trim(m.content), Len(KEYCHECK) + 1, Len(trim(m.content)))]
    ELSE NoMessage

----------------------------------------------------------------------------
(* The loop of main() *)

Init ==
    /\ pc = "recv"
    /\ n = 0
    /\ message = NoMessage
    /\ conversation = Null
    /\ parts = <<>>
    /\ command = <<>>
    /\ targetInboxId = <<>>
    /\ targetAddress = <<>>
    /\ installationIds = <<>>
    /\ addressFromInboxId = <<>>
    /\ text = <<>>
    /\ error = <<>>
    /\ calls = <<>>
    /\ active = {}
    /\ sameWorld = FALSE
    /\ prevCalls = <<>>

locals == <<conversation, parts, command, targetInboxId, targetAddress,
            installationIds, addressFromInboxId, text, error>>

\* mutant of LoopHead: messages are handed to the body as they arrive
\* (an event callback instead of the for-await loop)
LoopHead_callback == pc # "rejected"

\* `for await (const message of stream)`: the next message is pulled only
\* when the loop body has run to its end (or to a continue)
LoopHead == pc = "recv"

\* continue, or the end of the loop body
Continue == pc' = "done" /\ active' = active \ {n}

\* an exception that leaves the loop: main() rejects, main().catch logs it
Reject == pc' = "rejected" /\ active' = active \ {n}

\* mutant of EndIteration: `conversation` is declared outside the loop and
\* keeps the conversation of the message handled before
EndIteration_keepsConversation ==
    /\ pc = "done"
    /\ pc' = "recv"
    /\ \E sw \in BOOLEAN :
        /\ sw => Alias(message) \in Messages
        /\ sameWorld' = sw
        /\ prevCalls' = IF sw THEN calls ELSE <<>>
        /\ message' = IF sw THEN message ELSE NoMessage
    /\ parts' = <<>>
    /\ command' = <<>>
    /\ targetInboxId' = <<>>
    /\ targetAddress' = <<>>
    /\ installationIds' = <<>>
    /\ addressFromInboxId' = <<>>
    /\ text' = <<>>
    /\ error' = <<>>
    /\ calls' = <<>>
    /\ UNCHANGED <<n, active, conversation>>

\* Back at the head of the loop the constants of the iteration are out of
\* scope.  The history variables keep the calls of the message when the next
\* message is going to be its alias, handled against the same collaborator state.
EndIteration ==
    /\ pc = "done"
    /\ pc' = "recv"
    /\ \E sw \in BOOLEAN :
        /\ sw => Alias(message) \in Messages
        /\ sameWorld' = sw
        /\ prevCalls' = IF sw THEN calls ELSE <<>>
        /\ message' = IF sw THEN message ELSE NoMessage
    /\ conversation' = Null
    /\ parts' = <<>>
    /\ command' = <<>>
    /\ targetInboxId' = <<>>
    /\ targetAddress' = <<>>
    /\ installationIds' = <<>>
    /\ addressFromInboxId' = <<>>
    /\ text' = <<>>
    /\ error' = <<>>
    /\ calls' = <<>>
    /\ UNCHANGED <<n, active>>

\* line 44
Receive ==
    /\ LoopHead
    /\ n < MaxMsgs
    /\ \E m \in (IF sameWorld THEN {Alias(message)} ELSE Messages) :
        message' = m
    /\ n' = n + 1
    /\ active' = active \cup {n + 1}
    /\ pc' = "filter"
    /\ UNCHANGED <<locals, calls, sameWorld, prevCalls>>

\* mutant of IsSelfOrNotText: the sender is compared as received
IsSelfOrNotText_caseSensitive(m) ==
    \/ m.senderInboxId = AgentInboxId
    \/ m.typeId # TEXT

\* lines 45-48
IsSelfOrNotText(m) ==
    \/ toLowerCase(m.senderInboxId) = toLowerCase(AgentInboxId)
    \/ m.typeId # TEXT

Filter ==
    /\ pc = "filter"
    /\ IF IsSelfOrNotText(message)
       THEN Continue
       ELSE pc' = "getConversationById" /\ active' = active
    /\ UNCHANGED <<n, message, locals, calls, sameWorld, prevCalls>>

\* mutant of NotFound: the missing conversation is not skipped
NotFound_never(c) == FALSE

\* line 56
NotFound(c) == c = Null

GetConversationById ==
    /\ pc = "getConversationById"
    /\ \E r \in Answers("getConversationById", Null, message.conversationId,
                        {Ok(message.conversationId), Ok(Null)} \cup Failures) :
        /\ calls' = Append(calls, Call("getConversationById", Null, message.conversationId, r))
        /\ IF r.kind = "throws"
           THEN Reject /\ UNCHANGED conversation
           ELSE /\ conversation' = r.val
                /\ IF NotFound(r.val)
                   THEN Continue
                   ELSE pc' = "checkPrefix" /\ active' = active
    /\ UNCHANGED <<n, message, parts, command, targetInboxId, targetAddress,
                   installationIds, addressFromInboxId, text, error, sameWorld, prevCalls>>

\* String.prototype.includes
includes(s, p) ==
    \E i \in 0..(Len(s) - Len(p)) : SubSeq(s, i + 1, i + Len(p)) = p

\* mutant of HasPrefix: the prefix is looked for anywhere in the text
HasPrefix_includes(content) ==
    includes(trim(content), KEYCHECK) \/ includes(trim(content), KC)

\* line 65
HasPrefix(content) ==
    startsWith(trim(content), KEYCHECK) \/ startsWith(trim(content), KC)

CheckPrefix ==
    /\ pc = "checkPrefix"
    /\ IF ~HasPrefix(message.content)
       THEN Continue
       ELSE pc' = "parse" /\ active' = active
    /\ UNCHANGED <<n, message, locals, calls, sameWorld, prevCalls>>

\* mutant of Command: the subcommand is lower-cased like the prefix of line 73
Command_lowerCased(p) == IF Len(p) > 1 THEN toLowerCase(p[2]) ELSE <<>>

\* mutant of Command: the subcommand is read only behind the long prefix
Command_longPrefixOnly(p) == IF Len(p) > 1 /\ p[1] = KEYCHECK THEN p[2] ELSE <<>>

\* line 74
Command(p) == IF Len(p) > 1 THEN p[2] ELSE <<>>

\* lines 76, 95, 102, 109, 140, 143: where the command is dispatched to
Handler(cmd, p) ==
    IF cmd = HELP THEN "sendHelp"
    ELSE IF cmd = GROUPID THEN "sendGroupId"
    ELSE IF cmd = VERSION THEN "sendVersion"
    ELSE IF cmd = MEMBERS THEN "members"
    ELSE IF cmd = INBOXID /\ Len(p) > 2 THEN "inboxState"
    ELSE IF cmd = ADDRESS /\ Len(p) > 2 THEN "getInboxIdByIdentifier"
    ELSE "inboxState"

\* line 96
ConversationIdText(id) == <<"Conversation ID: \"">> \o id \o <<"\"">>

\* line 103
VersionText == <<"XMTP node-sdk Version: ">> \o xmtpSdkVersion

Goto(p) ==
    IF p = "continue" THEN Continue
    ELSE IF p = "rejected" THEN Reject
    ELSE pc' = p /\ active' = active

\* lines 72-76, 95, 102, 109, 136-145
ParseCommand ==
    /\ pc = "parse"
    /\ LET p == split(trim(message.content))
           cmd == Command(p)
           h == Handler(cmd, p)
       IN /\ parts' = p
          /\ command' = cmd
          /\ targetInboxId' =
                IF h \in {"sendHelp", "sendGroupId", "sendVersion", "members"} THEN <<>>
                ELSE IF cmd = INBOXID /\ Len(p) > 2 THEN p[3]
                ELSE message.senderInboxId
          /\ targetAddress' = IF h = "getInboxIdByIdentifier" THEN p[3] ELSE <<>>
          /\ text' = IF h = "sendHelp" THEN helpText
                     ELSE IF h = "sendGroupId" THEN ConversationIdText(message.conversationId)
                     ELSE IF h = "sendVersion" THEN VersionText
                     ELSE <<>>
          /\ Goto(h)
    /\ UNCHANGED <<n, message, conversation, installationIds, addressFromInboxId,
                   error, calls, sameWorld, prevCalls>>

\* line 157: the catch clause of lines 155-159
ResolveErrorText(e) == <<"Error resolving address ">> \o targetAddress

\* mutant of KeyCheckErrorText: the error's message is left out
KeyCheckErrorText_noMessage(e) == <<"Error processing key-check: ">>

\* line 221: the catch clause of lines 219-222
KeyCheckErrorText(e) == <<"Error processing key-check: ">> \o e

\* the text the catch clause entered at `fail` sends for the error e; an
\* exception no catch clause handles sends nothing more
CatchText(fail, e) ==
    IF fail = "sendResolveError" THEN ResolveErrorText(e)
    ELSE IF fail = "sendError" THEN KeyCheckErrorText(e)
    ELSE text

\* await conversation.send(text): the call, and where control goes when it
\* completes (ok) and when it throws (fail)
Send(ok, fail) ==
    \E r \in Answers("send", conversation, text, {Ok(<<>>)} \cup Failures) :
        /\ calls' = Append(calls, Call("send", conversation, text, r))
        /\ IF r.kind = "ok"
           THEN Goto(ok) /\ UNCHANGED <<text, error>>
           ELSE Goto(fail) /\ error' = r.val /\ text' = CatchText(fail, r.val)

sendFrame == <<n, message, conversation, parts, command, targetInboxId, targetAddress,
               installationIds, addressFromInboxId, sameWorld, prevCalls>>

\* mutant of SendHelp: the continue of line 91 is missing, so control falls
\* through to the key-check of lines 163-222
SendHelp_noContinue ==
    pc = "sendHelp" /\ Send("inboxState", "rejected") /\ UNCHANGED sendFrame

\* line 89
SendHelp ==
    pc = "sendHelp" /\ Send("continue", "rejected") /\ UNCHANGED sendFrame

\* line 96
SendGroupId ==
    pc = "sendGroupId" /\ Send("continue", "rejected") /\ UNCHANGED sendFrame

\* line 103
SendVersion ==
    pc = "sendVersion" /\ Send("continue", "rejected") /\ UNCHANGED sendFrame

----------------------------------------------------------------------------
(* The members handler, lines 109-134 *)

MemberIds == { <<"a", "b">>, <<"c", "D">>, <<"E", "f">> }

MemberLists ==
    UNION { [1..k -> MemberIds] : k \in 0..MaxMembers }

NoMembersText == <<"No members found in this conversation.">>

\* mutant of Marker: the inbox ids are compared as received
Marker_caseSensitive(inboxId, senderInboxId) ==
    IF inboxId = senderInboxId THEN "*" ELSE IF inboxId = AgentInboxId THEN "~" ELSE " "

\* lines 121-124
Marker(inboxId, senderInboxId) ==
    LET isBot == toLowerCase(inboxId) = toLowerCase(AgentInboxId)
        isSender == toLowerCase(inboxId) = toLowerCase(senderInboxId)
    IN IF isSender THEN "*" ELSE IF isBot THEN "~" ELSE " "

\* line 125
MemberLine(inboxId, senderInboxId) ==
    <<Marker(inboxId, senderInboxId)>> \o inboxId
        \o <<Marker(inboxId, senderInboxId), "\n\n">>

RECURSIVE MemberLines(_, _, _)
MemberLines(members, i, senderInboxId) ==
    IF i > Len(members) THEN <<>>
    ELSE MemberLine(members[i], senderInboxId)
             \o MemberLines(members, i + 1, senderInboxId)

\* lines 118-129
membersList(members, senderInboxId) ==
    <<"Group members:\n\n">> \o MemberLines(members, 1, senderInboxId)
        \o <<"\n ~indicates key-check bot's inbox ID~",
             "\n *indicates who prompted the key-check command*">>

\* lines 110-130
Members ==
    /\ pc = "members"
    /\ \E r \in Answers("members", conversation, <<>>,
                        {Ok(ms) : ms \in MemberLists} \cup Failures) :
        /\ calls' = Append(calls, Call("members", conversation, <<>>, r))
        /\ IF r.kind = "throws"
           THEN Reject /\ UNCHANGED text
           ELSE IF Len(r.val) = 0
           THEN text' = NoMembersText /\ Goto("sendNoMembers")
           ELSE text' = membersList(r.val, message.senderInboxId) /\ Goto("sendMembers")
    /\ UNCHANGED <<n, message, conversation, parts, command, targetInboxId, targetAddress,
                   installationIds, addressFromInboxId, error, sameWorld, prevCalls>>

\* line 113
SendNoMembers ==
    pc = "sendNoMembers" /\ Send("continue", "rejected") /\ UNCHANGED sendFrame

\* line 131
SendMembers ==
    pc = "sendMembers" /\ Send("continue", "rejected") /\ UNCHANGED sendFrame

----------------------------------------------------------------------------
(* The key-check handler and the report, lines 136-222 *)

\* what getInboxIdByIdentifier may resolve an address to
ResolvedIds == { <<"E", "f">> }

NoInboxText(addr) == <<"No inbox found for address ">> \o addr

\* lines 148-159; the send of line 151 is inside the try block
GetInboxIdByIdentifier ==
    /\ pc = "getInboxIdByIdentifier"
    /\ \E r \in Answers("getInboxIdByIdentifier", Null, targetAddress,
                        {Ok(Null)} \cup {Ok(id) : id \in ResolvedIds} \cup Failures) :
        /\ calls' = Append(calls, Call("getInboxIdByIdentifier", Null, targetAddress, r))
        /\ IF r.kind = "throws"
           THEN /\ error' = r.val
                /\ text' = ResolveErrorText(r.val)
                /\ Goto("sendResolveError")
                /\ UNCHANGED targetInboxId
           ELSE IF r.val = Null
           THEN /\ text' = NoInboxText(targetAddress)
                /\ Goto("sendNoInbox")
                /\ UNCHANGED <<targetInboxId, error>>
           ELSE /\ targetInboxId' = r.val
                /\ Goto("inboxState")
                /\ UNCHANGED <<text, error>>
    /\ UNCHANGED <<n, message, conversation, parts, command, targetAddress,
                   installationIds, addressFromInboxId, sameWorld, prevCalls>>

\* line 151
SendNoInbox ==
    pc = "sendNoInbox" /\ Send("continue", "sendResolveError")
        /\ UNCHANGED sendFrame

\* line 157
SendResolveError ==
    pc = "sendResolveError" /\ Send("continue", "rejected") /\ UNCHANGED sendFrame

InstallationIdSet ==
    { <<"i", "1">>,
      <<"a", "b", "c", "d", "e", "f", "g", "h">>,
      <<"a", "b", "c", "d", "X", "e", "f", "g", "h">> }

IsInjective(f) == \A i, j \in DOMAIN f : f[i] = f[j] => i = j

InstallationLists ==
    { l \in UNION { [1..k -> InstallationIdSet] : k \in 0..MaxInstallations } :
        IsInjective(l) }

\* the identifier of inboxState[0].identifiers[0]
StateAddress == <<"0", "x", "B">>

\* the elements inboxStateFromInboxIds may return
InboxStates ==
    [identifiers : { <<>>, <<StateAddress>> }, installations : InstallationLists]

NoInboxStateText(id) == <<"No inbox state found for ">> \o id

\* lines 164-178
InboxStateFromInboxIds ==
    /\ pc = "inboxState"
    /\ \E r \in Answers("inboxStateFromInboxIds", Null, <<targetInboxId>>,
                        {Ok(<<>>)} \cup {Ok(<<st>>) : st \in InboxStates} \cup Failures) :
        /\ calls' = Append(calls, Call("inboxStateFromInboxIds", Null, <<targetInboxId>>, r))
        /\ IF r.kind = "throws"
           THEN /\ error' = r.val
                /\ text' = KeyCheckErrorText(r.val)
                /\ Goto("sendError")
                /\ UNCHANGED <<addressFromInboxId, installationIds>>
           ELSE IF Len(r.val) = 0
           THEN /\ text' = NoInboxStateText(targetInboxId)
                /\ Goto("sendNoState")
                /\ UNCHANGED <<error, addressFromInboxId, installationIds>>
           ELSE IF Len(r.val[1].identifiers) = 0
           THEN /\ error' = TypeErrorMsg
                /\ text' = KeyCheckErrorText(TypeErrorMsg)
                /\ Goto("sendError")
                /\ UNCHANGED <<addressFromInboxId, installationIds>>
           ELSE /\ addressFromInboxId' = r.val[1].identifiers[1]
                /\ installationIds' = r.val[1].installations
                /\ Goto("getKeyPackageStatuses")
                /\ UNCHANGED <<text, error>>
    /\ UNCHANGED <<n, message, conversation, parts, command, targetInboxId, targetAddress,
                   sameWorld, prevCalls>>

\* mutant of SendNoState: the continue of line 170 is missing, so a second
\* send follows the first
SendNoState_noContinue ==
    pc = "sendNoState" /\ Send("sendReport", "sendError") /\ UNCHANGED sendFrame

\* line 169
SendNoState ==
    pc = "sendNoState" /\ Send("continue", "sendError") /\ UNCHANGED sendFrame

\* KeyPackageStatus | undefined: no status, a lifetime, a validation error, both
NoLifetime == <<>>
Statuses ==
    { [defined |-> FALSE, lifetime |-> NoLifetime, validationError |-> <<>>],
      [defined |-> TRUE, lifetime |-> <<17, 18>>, validationError |-> <<>>],
      [defined |-> TRUE, lifetime |-> NoLifetime, validationError |-> <<"bad signature">>],
      [defined |-> TRUE, lifetime |-> <<17, 19>>, validationError |-> <<"expired">>] }

\* the mappings getKeyPackageStatusesForInstallationIds may return for ids:
\* one entry per id, in the order of the request
StatusMaps(ids) ==
    { [i \in 1..Len(ids) |-> [id |-> ids[i], status |-> f[i]]] :
        f \in [1..Len(ids) -> Statuses] }

\* installationStatus?.validationError, as a condition
HasValidationError(st) == st.defined /\ st.validationError # <<>>

\* installationStatus?.lifetime, as a condition
HasLifetime(st) == st.defined /\ st.lifetime # NoLifetime

RECURSIVE CountValid(_, _)
CountValid(status, i) ==
    IF i > Len(status) THEN 0
    ELSE (IF ~HasValidationError(status[i].status) THEN 1 ELSE 0)
            + CountValid(status, i + 1)

\* line 186
totalInstallations(status) == Len(status)

\* mutant of validInstallations: the installations with a lifetime are counted
validInstallations_byLifetime(status) ==
    Cardinality({ i \in 1..Len(status) : HasLifetime(status[i].status) })

\* lines 187-189
validInstallations(status) == CountValid(status, 1)

\* line 190
invalidInstallations(status) == totalInstallations(status) - validInstallations(status)

\* mutant of shortId: an id of length 8 is abbreviated too
shortId_fromEight(installationId) ==
    IF Len(installationId) >= 8
    THEN substring(installationId, 0, 4) \o <<"...">>
            \o substring(installationId, Len(installationId) - 4, Len(installationId))
    ELSE installationId

\* lines 196-198
shortId(installationId) ==
    IF Len(installationId) > 8
    THEN substring(installationId, 0, 4) \o <<"...">>
            \o substring(installationId, Len(installationId) - 4, Len(installationId))
    ELSE installationId

\* new Date(Number(t) * 1000).toLocaleString()
LocaleDate(t) == <<"date(", ToString(t * 1000), ")">>

\* mutant of Block: the branch of line 211 is missing
Block_lifetimeOnly(entry) ==
    IF HasLifetime(entry.status)
    THEN <<"[valid] '">> \o shortId(entry.id) \o <<"':\n">>
            \o <<"- created: ">> \o LocaleDate(entry.status.lifetime[1]) \o <<"\n">>
            \o <<"- valid until: ">> \o LocaleDate(entry.status.lifetime[2]) \o <<"\n\n">>
    ELSE <<>>

\* lines 200-214; "[valid]" and "[invalid]" stand for the check and cross marks
Block(entry) ==
    IF HasLifetime(entry.status)
    THEN <<"[valid] '">> \o shortId(entry.id) \o <<"':\n">>
            \o <<"- created: ">> \o LocaleDate(entry.status.lifetime[1]) \o <<"\n">>
            \o <<"- valid until: ">> \o LocaleDate(entry.status.lifetime[2]) \o <<"\n\n">>
    ELSE IF HasValidationError(entry.status)
    THEN <<"[invalid] '">> \o shortId(entry.id) \o <<"':\n">>
            \o <<"- validationError: '">> \o entry.status.validationError \o <<"'\n\n">>
    ELSE <<>>

RECURSIVE Blocks(_, _)
Blocks(status, i) ==
    IF i > Len(status) THEN <<>> ELSE Block(status[i]) \o Blocks(status, i + 1)

\* lines 193-215
summaryText(inboxId, address, status) ==
    <<"InboxID: \n\"">> \o inboxId \o <<"\" \nAddress: \n\"">> \o address
        \o <<"\" \n You have ", ToString(totalInstallations(status)),
             " installations, ", ToString(validInstallations(status)),
             " of them are valid and ", ToString(invalidInstallations(status)),
             " of them are invalid.\n\n">>
        \o Blocks(status, 1)

\* lines 181-215
GetKeyPackageStatuses ==
    /\ pc = "getKeyPackageStatuses"
    /\ \E r \in Answers("getKeyPackageStatusesForInstallationIds", Null, installationIds,
                        {Ok(st) : st \in StatusMaps(installationIds)} \cup Failures) :
        /\ calls' = Append(calls, Call("getKeyPackageStatusesForInstallationIds", Null,
                                       installationIds, r))
        /\ IF r.kind = "throws"
           THEN /\ error' = r.val
                /\ text' = KeyCheckErrorText(r.val)
                /\ Goto("sendError")
           ELSE /\ text' = summaryText(targetInboxId, addressFromInboxId, r.val)
                /\ Goto("sendReport")
                /\ UNCHANGED error
    /\ UNCHANGED <<n, message, conversation, parts, command, targetInboxId, targetAddress,
                   installationIds, addressFromInboxId, sameWorld, prevCalls>>

\* line 217
SendReport ==
    pc = "sendReport" /\ Send("continue", "sendError") /\ UNCHANGED sendFrame

\* line 221
SendError ==
    pc = "sendError" /\ Send("continue", "rejected") /\ UNCHANGED sendFrame

----------------------------------------------------------------------------

Next ==
    \/ Receive
    \/ EndIteration
    \/ Filter
    \/ GetConversationById
    \/ CheckPrefix
    \/ ParseCommand
    \/ SendHelp
    \/ SendGroupId
    \/ SendVersion
    \/ Members
    \/ SendNoMembers
    \/ SendMembers
    \/ GetInboxIdByIdentifier
    \/ SendNoInbox
    \/ SendResolveError
    \/ InboxStateFromInboxIds
    \/ SendNoState
    \/ GetKeyPackageStatuses
    \/ SendReport
    \/ SendError

Spec == Init /\ [][Next]_vars

----------------------------------------------------------------------------
(* Vocabulary of the properties *)

\* the tokens of a text: its maximal runs of non-whitespace characters
RECURSIVE WordsAcc(_, _, _)
WordsAcc(s, acc, cur) ==
    IF s = <<>> THEN (IF cur = <<>> THEN acc ELSE Append(acc, cur))
    ELSE IF IsSpace(Head(s))
         THEN WordsAcc(Tail(s), IF cur = <<>> THEN acc ELSE Append(acc, cur), <<>>)
         ELSE WordsAcc(Tail(s), acc, Append(cur, Head(s)))

\* the tokens of the texts a message can carry, computed once
WordsOfContents == [c \in Contents |-> WordsAcc(c, <<>>, <<>>)]

Words(s) == IF s \in Contents THEN WordsOfContents[s] ELSE WordsAcc(s, <<>>, <<>>)

\* the trimmed text starts with "/key-check" or "/kc"
Recognized(content) ==
    LET w == Words(content)
    IN /\ w # <<>>
       /\ \/ startsWith(w[1], KEYCHECK)
          \/ startsWith(w[1], KC)

FromSelf(m) == toLowerCase(m.senderInboxId) = toLowerCase(AgentInboxId)

\* a text message of another sender
TextFromOther(m) == m # NoMessage /\ m.typeId = TEXT /\ ~FromSelf(m)

Finished == pc \in {"done", "rejected"}

Failed(i) == calls[i].res.kind = "throws"

IsSend(i) == calls[i].op = "send"

SendIdx == { i \in 1..Len(calls) : IsSend(i) }

IsErrorText(t) ==
    t # <<>> /\ t[1] \in {"Error resolving address ", "Error processing key-check: "}

ConversationFound ==
    /\ Len(calls) >= 1
    /\ calls[1].op = "getConversationById"
    /\ calls[1].res = Ok(message.conversationId)

Made(op) == \E i \in 1..Len(calls) : calls[i].op = op

----------------------------------------------------------------------------
(* C1: a failing collaborator call, made while a message is handled, never *)
(* ends the loop: the loop goes on to the next message.                    *)
C1_FailureNeverAbortsLoop ==
    (\E i \in 1..Len(calls) : Failed(i)) => pc # "rejected"

(* C2, as stated: a text message of another sender without a recognized    *)
(* prefix causes no collaborator call at all, not even a conversation      *)
(* lookup, and no send.                                                    *)
C2_NoCallWithoutPrefix ==
    (TextFromOther(message) /\ ~Recognized(message.content)) => calls = <<>>

(* C2, amended: such a message causes no send and no collaborator call     *)
(* other than the one conversation lookup of line 52.                      *)
C2_OnlyLookupWithoutPrefix ==
    (TextFromOther(message) /\ ~Recognized(message.content)) =>
        /\ Len(calls) <= 1
        /\ \A i \in 1..Len(calls) : calls[i].op = "getConversationById"
        /\ parts = <<>>
        /\ text = <<>>

C2_Witness ==
    /\ pc = "done"
    /\ TextFromOther(message)
    /\ message.content = <<"x">> \o SP \o KC \o SP \o HELP
    /\ ConversationFound
    /\ Len(calls) = 1

(* C3: a message of the agent itself (inbox ids compared without regard to *)
(* letter case) or of a content type other than text causes no send and no *)
(* collaborator call, whatever its content, and the loop goes on.          *)
C3_SelfOrNonTextIgnored ==
    (message # NoMessage /\ (FromSelf(message) \/ message.typeId # TEXT)) =>
        /\ calls = <<>>
        /\ conversation = Null
        /\ pc \in {"filter", "done", "recv"}

C3_Witness ==
    /\ pc = "done"
    /\ message.senderInboxId = <<"a", "B">>
    /\ message.typeId = TEXT
    /\ message.content = KC \o SP \o HELP
    /\ calls = <<>>

(* C4: once the conversation has been obtained, every error of a           *)
(* collaborator call is caught for that message and a send of an error     *)
(* text is attempted, for every command kind.                              *)
C4_EveryErrorIsReported ==
    (Finished /\ ConversationFound) =>
        \A i \in 1..Len(calls) :
            (Failed(i) /\ ~(IsSend(i) /\ IsErrorText(calls[i].arg))) =>
                \E j \in (i + 1)..Len(calls) : IsSend(j) /\ IsErrorText(calls[j].arg)

(* C5: messages are handled one at a time in delivery order: the only loop *)
(* body that is ever running is that of the message delivered last, and it *)
(* has ended before the next message is delivered.                         *)
C5_OneAtATimeInOrder ==
    /\ active \subseteq {n}
    /\ Cardinality(active) <= 1
    /\ (calls # <<>> /\ ~Finished) => active = {n}
    /\ pc \in {"recv", "done", "rejected"} => active = {}

C5_Witness ==
    /\ n = 2
    /\ active = {2}
    /\ pc = "sendReport"
    /\ Len(calls) = 3

(* C6: the command is classified by the parse table: the second token,     *)
(* compared case-sensitively, selects help, groupid, version or members;   *)
(* inboxid with a third token checks exactly that inbox id without         *)
(* resolving an identity; address with a third token resolves that         *)
(* address; anything else checks the sender's own inbox id.  No recognized *)
(* input is ignored.                                                       *)
C6_Classification ==
    (TextFromOther(message) /\ Recognized(message.content) /\ ConversationFound) =>
        LET w == Words(message.content)
            sub == IF Len(w) >= 2 THEN w[2] ELSE <<>>
        IN /\ pc = "done" => Len(calls) >= 2
           /\ Len(calls) >= 2 =>
                LET c == calls[2] IN
                IF sub = HELP THEN c.op = "send" /\ c.arg = helpText
                ELSE IF sub = GROUPID
                THEN c.op = "send" /\ c.arg = ConversationIdText(message.conversationId)
                ELSE IF sub = VERSION THEN c.op = "send" /\ c.arg = VersionText
                ELSE IF sub = MEMBERS THEN c.op = "members"
                ELSE IF sub = INBOXID /\ Len(w) >= 3
                THEN /\ c.op = "inboxStateFromInboxIds" /\ c.arg = <<w[3]>>
                     /\ ~Made("getInboxIdByIdentifier")
                ELSE IF sub = ADDRESS /\ Len(w) >= 3
                THEN c.op = "getInboxIdByIdentifier" /\ c.arg = w[3]
                ELSE /\ c.op = "inboxStateFromInboxIds"
                     /\ c.arg = <<message.senderInboxId>>
                     /\ ~Made("getInboxIdByIdentifier")

C6_Witness ==
    /\ pc = "done"
    /\ message.content = KC \o SP \o <<"H", "e", "l", "p">>
    /\ Len(calls) = 4
    /\ calls[2].op = "inboxStateFromInboxIds"
    /\ calls[2].arg = << <<"C", "d">> >>
    /\ calls[4].op = "send"

(* C7: the alias is equivalent: "/kc <tokens>" and "/key-check <tokens>"   *)
(* of the same sender in the same conversation, against the same           *)
(* collaborator state, cause the same calls with the same arguments and    *)
(* the same sent texts.                                                    *)
C7_AliasEquivalence ==
    sameWorld =>
        /\ Len(calls) <= Len(prevCalls)
        /\ \A i \in 1..Len(calls) :
            /\ calls[i].op = prevCalls[i].op
            /\ calls[i] = prevCalls[i]
        /\ pc = "done" => Len(calls) = Len(prevCalls)
        /\ pc # "rejected"

C7_Witness ==
    /\ sameWorld
    /\ pc = "done"
    /\ message.content = KEYCHECK \o SP \o HELP
    /\ Len(calls) = 2
    /\ calls = prevCalls
    /\ calls[2].arg = helpText

(* C8: when the address resolves to no inbox id, exactly one message is    *)
(* sent, "No inbox found for address <value>", and neither the inbox state *)
(* nor the key-package status is queried.                                  *)
C8_NoInboxSingleSend ==
    (Finished /\ \E i \in 1..Len(calls) :
        calls[i].op = "getInboxIdByIdentifier" /\ calls[i].res = Ok(Null)) =>
        /\ Cardinality(SendIdx) = 1
        /\ \A i \in SendIdx : calls[i].arg = NoInboxText(targetAddress)
        /\ ~Made("inboxStateFromInboxIds")
        /\ ~Made("getKeyPackageStatusesForInstallationIds")

(* C9: when the inbox-state query returns nothing, the handling ends with  *)
(* the send of "No inbox state found for <id>": no key-package status is   *)
(* queried, no report is sent, and the loop goes on to the next message.   *)
C9_NoStateStopsAndContinues ==
    (\E i \in 1..Len(calls) :
        calls[i].op = "inboxStateFromInboxIds" /\ calls[i].res = Ok(<<>>)) =>
        /\ ~Made("getKeyPackageStatusesForInstallationIds")
        /\ \A i \in SendIdx :
            calls[i].arg = NoInboxStateText(targetInboxId) \/ IsErrorText(calls[i].arg)
        /\ Finished => pc = "done"

(* C10: when getConversationById returns no conversation, nothing is sent, *)
(* the content is neither parsed nor dispatched, and the loop goes on.     *)
C10_ConversationNotFound ==
    (Len(calls) >= 1 /\ calls[1].op = "getConversationById" /\ calls[1].res = Ok(Null)) =>
        /\ Len(calls) = 1
        /\ conversation = Null
        /\ parts = <<>>
        /\ command = <<>>
        /\ text = <<>>
        /\ pc = "done"

C10_Witness ==
    /\ pc = "done"
    /\ TextFromOther(message)
    /\ message.content = KEYCHECK \o SP \o MEMBERS
    /\ Len(calls) = 1
    /\ calls[1].res = Ok(Null)


----------------------------------------------------------------------------
(* Vocabulary of the report properties *)

\* the calls of getKeyPackageStatusesForInstallationIds that returned a mapping
StatusIdx ==
    { i \in 1..Len(calls) :
        calls[i].op = "getKeyPackageStatusesForInstallationIds" /\ calls[i].res.kind = "ok" }

\* the report composed from the mapping of call i: the text of the send that
\* follows it, or the text about to be sent
ReportText(i) == IF Len(calls) > i THEN calls[i + 1].arg ELSE text

\* where the header's piece "... You have " stands in the report
CountsAt == Len(targetInboxId) + Len(addressFromInboxId) + 3

\* the number a piece of the header shows
Shown(piece) == CHOOSE k \in 0..(MaxInstallations + 2) : ToString(k) = piece

\* the entries of a mapping that carry a non-empty validationError
WithError(status) ==
    { j \in 1..Len(status) :
        status[j].status.defined /\ status[j].status.validationError # <<>> }

(* C11: in every report the total is the number of mapping entries, the    *)
(* invalid count is the number of entries with a non-empty validationError *)
(* (an entry without a status, and one with a lifetime and no error, is    *)
(* valid), the valid count is the rest, and valid + invalid = total with   *)
(* neither negative.                                                       *)
C11_ReportCounts ==
    \A i \in StatusIdx :
        LET status == calls[i].res.val
            T == ReportText(i)
            total == Shown(T[CountsAt + 1])
            valid == Shown(T[CountsAt + 3])
            invalid == Shown(T[CountsAt + 5])
        IN /\ T[CountsAt] = "\" \n You have "
           /\ total = Len(status)
           /\ invalid = Cardinality(WithError(status))
           /\ valid = total - invalid
           /\ valid + invalid = total
           /\ valid >= 0 /\ invalid >= 0

C11_Witness ==
    /\ pc = "sendReport"
    /\ \E i \in StatusIdx :
        /\ Len(calls[i].res.val) = 2
        /\ ~calls[i].res.val[1].status.defined
        /\ calls[i].res.val[2].status.lifetime # NoLifetime
        /\ calls[i].res.val[2].status.validationError # <<>>
        /\ text[CountsAt + 3] = "1"
        /\ text[CountsAt + 5] = "1"


\* every installation of the mapping has exactly one of lifetime, validationError
ExactlyOne(status) ==
    \A j \in 1..Len(status) :
        /\ status[j].status.defined
        /\ (status[j].status.lifetime # NoLifetime) # (status[j].status.validationError # <<>>)

IsMark(piece) == piece \in {"[valid] '", "[invalid] '"}

\* the pieces that follow "- validationError: '" in a text, in order
RECURSIVE ErrorTextsFrom(_, _)
ErrorTextsFrom(T, k) ==
    IF k >= Len(T) THEN <<>>
    ELSE (IF T[k] = "- validationError: '" THEN <<T[k + 1]>> ELSE <<>>)
            \o ErrorTextsFrom(T, k + 1)

\* the validation errors of a mapping, in its order
RECURSIVE ErrorsFrom(_, _)
ErrorsFrom(status, j) ==
    IF j > Len(status) THEN <<>>
    ELSE status[j].status.validationError \o ErrorsFrom(status, j + 1)

(* C12: when every installation of the mapping has exactly one of lifetime *)
(* and validationError, the report has one block per installation, in the  *)
(* order of the mapping, as many valid blocks as the valid count and as    *)
(* many invalid blocks as the invalid count, and each invalid block shows  *)
(* the installation's validationError literally.                           *)
C12_OneBlockPerInstallation ==
    \A i \in StatusIdx :
        LET status == calls[i].res.val
            T == ReportText(i)
            marks == SelectSeq(T, IsMark)
        IN ExactlyOne(status) =>
            /\ marks = [j \in 1..Len(status) |->
                          IF status[j].status.lifetime # NoLifetime
                          THEN "[valid] '" ELSE "[invalid] '"]
            /\ Cardinality({ j \in 1..Len(marks) : marks[j] = "[valid] '" })
                  = Shown(T[CountsAt + 3])
            /\ Cardinality({ j \in 1..Len(marks) : marks[j] = "[invalid] '" })
                  = Shown(T[CountsAt + 5])
            /\ ErrorTextsFrom(T, 1) = ErrorsFrom(status, 1)

C12_Witness ==
    /\ pc = "done"
    /\ \E i \in StatusIdx :
        /\ Len(calls[i].res.val) = 2
        /\ ExactlyOne(calls[i].res.val)
        /\ calls[i].res.val[1].status.lifetime # NoLifetime
        /\ calls[i].res.val[2].status.validationError = <<"bad signature">>
        /\ Len(calls) = i + 1
        /\ calls[i + 1].res.kind = "ok"
        /\ SelectSeq(calls[i + 1].arg, IsMark) = <<"[valid] '", "[invalid] '">>


----------------------------------------------------------------------------
(* Vocabulary of the members listing *)

\* the calls of conversation.members() that returned a list
MembersIdx ==
    { i \in 1..Len(calls) : calls[i].op = "members" /\ calls[i].res.kind = "ok" }

\* the text composed from the result of call i
ListingText(i) == IF Len(calls) > i THEN calls[i + 1].arg ELSE text

\* the lines of a listing body: the runs of pieces that end with "\n\n"
RECURSIVE LinesAcc(_, _, _)
LinesAcc(body, acc, cur) ==
    IF body = <<>> THEN acc
    ELSE IF Head(body) = "\n\n" THEN LinesAcc(Tail(body), Append(acc, cur), <<>>)
    ELSE LinesAcc(Tail(body), acc, Append(cur, Head(body)))

\* the marker the listing owes a member: "*" the sender, "~" the bot, " " none
OwedMarker(inboxId) ==
    IF toLowerCase(inboxId) = toLowerCase(message.senderInboxId) THEN "*"
    ELSE IF toLowerCase(inboxId) = toLowerCase(AgentInboxId) THEN "~"
    ELSE " "

(* C13: the members listing has exactly one line per member, in the order  *)
(* of the member list; the sender's line (inbox ids compared without       *)
(* regard to letter case) carries "*", the bot's line carries "~" unless   *)
(* it is the sender's, every other line carries no marker; for an empty    *)
(* list the text is "No members found in this conversation.".              *)
C13_MembersListing ==
    \A i \in MembersIdx :
        LET members == calls[i].res.val
            T == ListingText(i)
            lines == LinesAcc(SubSeq(T, 2, Len(T) - 2), <<>>, <<>>)
        IN IF members = <<>>
           THEN T = <<"No members found in this conversation.">>
           ELSE /\ T[1] = "Group members:\n\n"
                /\ Len(lines) = Len(members)
                /\ \A k \in 1..Len(members) :
                     lines[k] = <<OwedMarker(members[k])>> \o members[k]
                                    \o <<OwedMarker(members[k])>>

C13_Witness ==
    /\ pc = "done"
    /\ message.senderInboxId = <<"C", "d">>
    /\ \E i \in MembersIdx :
        /\ calls[i].res.val = << <<"a", "b">>, <<"c", "D">>, <<"E", "f">> >>
        /\ Len(calls) = i + 1
        /\ calls[i + 1].res.kind = "ok"
        /\ calls[i + 1].arg[2] = "~"
        /\ calls[i + 1].arg[7] = "*"
        /\ calls[i + 1].arg[12] = " "


----------------------------------------------------------------------------
(* Vocabulary of the abbreviation law *)

\* where the blocks of a text start, and where their ids end
MarkAt(T) == { k \in 1..Len(T) : IsMark(T[k]) }
CloseAt(T) == { k \in 1..Len(T) : T[k] = "':\n" }

\* the id shown by the block that starts at k: the pieces up to the next "':\n"
ShownId(T, k) ==
    LET e == CHOOSE e \in CloseAt(T) : e > k /\ \A f \in CloseAt(T) : f > k => e <= f
    IN SubSeq(T, k + 1, e - 1)

\* the ids a text shows, in order
ShownIds(T) ==
    LET M == MarkAt(T)
        at == [j \in 1..Cardinality(M) |->
                 CHOOSE k \in M : Cardinality({ m \in M : m <= k }) = j]
    IN [j \in 1..Cardinality(M) |-> ShownId(T, at[j])]

\* the abbreviation the law prescribes
Abbreviated(id) ==
    IF Len(id) <= 8 THEN id
    ELSE SubSeq(id, 1, 4) \o <<"...">> \o SubSeq(id, Len(id) - 3, Len(id))

\* the prescribed abbreviations of the installations a report has a block for
RECURSIVE AbbreviatedFrom(_, _)
AbbreviatedFrom(status, j) ==
    IF j > Len(status) THEN <<>>
    ELSE (IF status[j].status.defined
             /\ (status[j].status.lifetime # NoLifetime
                 \/ status[j].status.validationError # <<>>)
          THEN <<Abbreviated(status[j].id)>> ELSE <<>>)
            \o AbbreviatedFrom(status, j + 1)

(* C14: the id a report shows for an installation is the id itself when it *)
(* has at most 8 characters, and otherwise its first 4 characters, "...",  *)
(* and its last 4 characters.                                              *)
C14_AbbreviationLaw ==
    \A i \in StatusIdx :
        ShownIds(ReportText(i))
            = AbbreviatedFrom(calls[i].res.val, 1)

C14_Witness ==
    /\ pc = "done"
    /\ \E i \in StatusIdx :
        /\ Len(calls) = i + 1
        /\ calls[i + 1].res.kind = "ok"
        /\ ShownIds(calls[i + 1].arg)
             = << <<"a", "b", "c", "d", "...", "e", "f", "g", "h">>,
                  <<"a", "b", "c", "d", "e", "f", "g", "h">> >>


----------------------------------------------------------------------------
(* Vocabulary of the key-check error handling *)

\* the text the handler goes on to send after call i
FollowText(i) == IF Len(calls) > i THEN calls[i + 1].arg ELSE text

\* after call i the handler is sending, or has attempted to send
SendFollows(i) ==
    IF Len(calls) > i THEN calls[i + 1].op = "send"
    ELSE pc \in {"sendError", "sendResolveError"}

Contains(T, piece) == \E k \in 1..Len(T) : T[k] = piece

IsReport(T) == T # <<>> /\ T[1] = "InboxID: \n\""

NoReport == ~IsReport(text) /\ \A j \in SendIdx : ~IsReport(calls[j].arg)

\* call i is a query of the key-check handler that threw
QueryFailed(i, ops) == calls[i].op \in ops /\ Failed(i)

\* call i returned an inbox state without identifiers: reading
\* identifiers[0].identifier throws a TypeError
ExtractionFails(i) ==
    /\ calls[i].op = "inboxStateFromInboxIds"
    /\ calls[i].res.kind = "ok"
    /\ Len(calls[i].res.val) > 0
    /\ calls[i].res.val[1].identifiers = <<>>

----------------------------------------------------------------------------
\* the second token of the message's text, <<>> when there is none
SubCommand ==
    LET w == IF message = NoMessage THEN <<>> ELSE Words(message.content)
    IN IF Len(w) > 1 THEN w[2] ELSE <<>>

\* the calls made after the conversation lookup
AfterLookup == 2..Len(calls)

(* C16: after the conversation lookup, handling a help, groupid or version *)
(* message makes exactly one call, a send, and never calls members, the    *)
(* identity resolution, the inbox-state query or the key-package status    *)
(* query; handling a members message calls only members and send.          *)
C16_SimpleHandlersOnlySend ==
    (ConversationFound /\ TextFromOther(message) /\ Recognized(message.content)) =>
        /\ SubCommand \in {HELP, GROUPID, VERSION} =>
             /\ Len(calls) <= 2
             /\ \A i \in AfterLookup : calls[i].op = "send"
             /\ Finished => Len(calls) = 2
        /\ SubCommand = MEMBERS =>
             /\ \A i \in AfterLookup : calls[i].op \in {"members", "send"}
             /\ Cardinality({ i \in AfterLookup : calls[i].op = "members" }) <= 1
             /\ Finished => calls[2].op = "members"

C16_Witness ==
    /\ pc = "done"
    /\ TextFromOther(message)
    /\ SubCommand = HELP
    /\ ConversationFound
    /\ Len(calls) = 2
    /\ calls[2] = Call("send", message.conversationId, helpText, Ok(<<>>))


----------------------------------------------------------------------------
Queries == {"getConversationById", "members", "getInboxIdByIdentifier",
            "inboxStateFromInboxIds", "getKeyPackageStatusesForInstallationIds"}

CallsOf(op) == { i \in 1..Len(calls) : calls[i].op = op }

SendsDone == { i \in SendIdx : calls[i].res.kind = "ok" }

NoCallFailed == \A i \in 1..Len(calls) : ~Failed(i)

(* C17: while one message is handled, whatever the collaborators answer,   *)
(* at most one send completes successfully and each query (conversation    *)
(* lookup, members, address resolution, inbox state, key-package status)   *)
(* is made at most once; when no call fails, a recognized command in a     *)
(* conversation that is found ends with exactly one successful send.       *)
C17_SurfacedOnceNoRetry ==
    /\ Cardinality(SendsDone) <= 1
    /\ \A op \in Queries : Cardinality(CallsOf(op)) <= 1
    /\ (/\ Finished
        /\ TextFromOther(message)
        /\ Recognized(message.content)
        /\ ConversationFound
        /\ NoCallFailed) =>
            /\ Cardinality(SendsDone) = 1
            /\ pc = "done"

C17_Witness ==
    /\ pc = "done"
    /\ Len(calls) = 4
    /\ calls[2].op = "inboxStateFromInboxIds"
    /\ calls[3].op = "send"
    /\ Failed(3)
    /\ calls[4].op = "send"
    /\ SendsDone = {4}


----------------------------------------------------------------------------
\* the values the variables of the loop body have before the first message
FreshLocals == <<Null, <<>>, <<>>, <<>>, <<>>, <<>>, <<>>, <<>>, <<>>>>

\* the calls made on a conversation object
OnConversation == { i \in 1..Len(calls) : calls[i].op \in {"send", "members"} }

(* C18: every send (and every members call) made while a message is        *)
(* handled is made on the conversation of that message's conversationId,   *)
(* and the handling of a message starts from the same state whatever was   *)
(* handled before: when a message is delivered, every variable the loop    *)
(* body reads other than the message has the value it had before the first *)
(* message, so the outcome depends on the message, the agent's inbox id    *)
(* and the collaborators' answers only.                                    *)
C18_IsolatedPerMessage ==
    /\ \A i \in OnConversation : calls[i].on = message.conversationId
    /\ conversation \in {Null, message.conversationId}
    /\ pc \in {"recv", "filter"} => (locals = FreshLocals /\ calls = <<>>)

C18_Witness ==
    /\ n = 2
    /\ pc = "done"
    /\ ~sameWorld
    /\ message.conversationId = <<"g", "2">>
    /\ Len(calls) = 4
    /\ calls[1].res = Ok(<<"g", "2">>)
    /\ OnConversation = {4}
    /\ calls[4].on = <<"g", "2">>

====
